---------------------------- MODULE Spec2Model ----------------------------
(***************************************************************************)
(* MuHash3072 (src/crypto/muhash.h, src/crypto/muhash.cpp): the limb       *)
(* primitives, reduction modulo P = 2^(LIMB_SIZE*LIMBS) - MAX_PRIME_DIFF,  *)
(* Multiply, Square, Inverse and the MuHash3072 facade, as a state machine *)
(* over accumulator objects.                                               *)
(*                                                                         *)
(* Scale.  TLC's integers are 32 bits wide, so the build-time parameters   *)
(* are instantiated at a reduced width that keeps the relations the code   *)
(* relies on:                                                              *)
(*     source                           model                              *)
(*     byte               8 bits        BYTE_BITS        3 bits            *)
(*     narrow limb_t     32 bits, 96    LIMB_SIZE 6,  LIMBS 4  (2 bytes)   *)
(*     wide   limb_t     64 bits, 48    LIMB_SIZE 12, LIMBS 2  (4 bytes)   *)
(*     Num3072         3072 bits        24 bits                            *)
(*     OUTPUT_SIZE      384 bytes       8 bytes                            *)
(*     MAX_PRIME_DIFF  1103717          3     (2^24 - 3 is prime)          *)
(* kept: both layouts span the same number of bits, wide limbs are twice   *)
(* as wide and half as many, LIMBS is even, MAX_PRIME_DIFF fits one limb,  *)
(* LIMBS * (MAX_PRIME_DIFF + 1) < 2^LIMB_SIZE (the 3-limb accumulators do  *)
(* not overflow), and the modulus is prime.  The inversion schedule is the *)
(* source's scheme (repunit table, then squarings and table               *)
(* multiplications) for the exponent P - 2 of the reduced modulus.         *)
(* Limb arrays are sequences: limbs[i] of the source is limbs[i + 1] here. *)
(***************************************************************************)
EXTENDS Integers, Sequences, FiniteSets, TLC

\* ------------------------------------------------------------------------
\* Build-time parameters (muhash.h)
\* ------------------------------------------------------------------------

\* Bits of an unsigned char.
BYTE_BITS == 3

\* MuHash3072::OUTPUT_SIZE, bytes of a digest and of a keystream.
OUTPUT_SIZE == 8

\* MAX_PRIME_DIFF: the modulus is 2^(LIMB_SIZE * LIMBS) - MAX_PRIME_DIFF.
MAX_PRIME_DIFF == 3

\* The two layouts of Num3072: with HAVE___INT128 (wide) and without (narrow).
Wide == [LIMB_SIZE |-> 12, LIMBS |-> 2]

Narrow == [LIMB_SIZE |-> 6, LIMBS |-> 4]

Layouts == {"wide", "narrow"}

Layout(b) == IF b = "wide" THEN Wide ELSE Narrow

\* 2^LIMB_SIZE: limb_t arithmetic is modulo Base, double_limb_t modulo Base^2.
Base(lay) == 2 ^ lay.LIMB_SIZE

\* std::numeric_limits<limb_t>::max()
LimbMax(lay) == Base(lay) - 1

\* sizeof(limb_t)
SizeofLimb(lay) == lay.LIMB_SIZE \div BYTE_BITS

\* ------------------------------------------------------------------------
\* Limb primitives (muhash.cpp, anonymous namespace).  A 3-limb accumulator
\* [c0,c1,c2] is the tuple <<c0, c1, c2>>, a 2-limb one <<c0, c1>>.
\* ------------------------------------------------------------------------

\* [c0,c1] = a * b
mul(lay, a, b) ==
    LET t == (a * b) % (Base(lay) * Base(lay))
    IN  <<t % Base(lay), t \div Base(lay)>>

\* mulnadd3 without the carry out of c0 into c1.
mulnadd3_NoCarry(lay, c, d, n) ==
    LET B  == Base(lay)
        t0 == (d[1] * n + c[1]) % (B * B)
        t1 == (d[2] * n + c[2]) % (B * B)
    IN  <<t0 % B, t1 % B, ((t1 \div B) + d[3] * n) % B>>

\* [c0,c1,c2] += n * [d0,d1,d2]; the incoming c2 is overwritten.
mulnadd3(lay, c, d, n) ==
    LET B  == Base(lay)
        t0 == (d[1] * n + c[1]) % (B * B)
        t1 == ((t0 \div B) + d[2] * n + c[2]) % (B * B)
    IN  <<t0 % B, t1 % B, ((t1 \div B) + d[3] * n) % B>>

\* [c0,c1] *= n
muln2(lay, c, n) ==
    LET B  == Base(lay)
        t0 == (c[1] * n) % (B * B)
        t1 == ((t0 \div B) + c[2] * n) % (B * B)
    IN  <<t0 % B, t1 % B>>

\* [c0,c1,c2] += a * b
muladd3(lay, c, a, b) ==
    LET B  == Base(lay)
        t  == (a * b) % (B * B)
        tl == t % B
        c0 == (c[1] + tl) % B
        th == ((t \div B) + (IF c0 < tl THEN 1 ELSE 0)) % B
        c1 == (c[2] + th) % B
    IN  <<c0, c1, (c[3] + (IF c1 < th THEN 1 ELSE 0)) % B>>

\* [c0,c1,c2] += 2 * a * b
muldbladd3(lay, c, a, b) ==
    LET B   == Base(lay)
        t   == (a * b) % (B * B)
        tl  == t % B
        c0a == (c[1] + tl) % B
        tt  == ((t \div B) + (IF c0a < tl THEN 1 ELSE 0)) % B
        c1a == (c[2] + tt) % B
        c2a == (c[3] + (IF c1a < tt THEN 1 ELSE 0)) % B
        c0b == (c0a + tl) % B
        th  == ((t \div B) + (IF c0b < tl THEN 1 ELSE 0)) % B
        c1b == (c1a + th) % B
    IN  <<c0b, c1b, (c2a + (IF c1b < th THEN 1 ELSE 0)) % B>>

\* [c0,c1] += a
add2(lay, c, a) ==
    LET B  == Base(lay)
        c0 == (c[1] + a) % B
    IN  <<c0, (c[2] + (IF c0 < a THEN 1 ELSE 0)) % B>>

\* extract3: n is the lowest limb c[1]; what is left of [c0,c1,c2].
extract3(c) == <<c[2], c[3], 0>>

\* extract2: n is the lowest limb c[1]; what is left of [c0,c1].
extract2(c) == <<c[2], 0>>

\* ------------------------------------------------------------------------
\* Reduction modulo P
\* ------------------------------------------------------------------------

\* The integer a limb array holds.
RECURSIVE ValueFrom(_, _, _)
ValueFrom(lay, d, i) ==
    IF i > Len(d) THEN 0 ELSE d[i] + Base(lay) * ValueFrom(lay, d, i + 1)

Value(lay, d) == ValueFrom(lay, d, 1)

\* 2^(LIMB_SIZE * LIMBS), the same for both layouts.
TwoToBits == 2 ^ (Narrow.LIMB_SIZE * Narrow.LIMBS)

\* The modulus P ("2^3072 - 1103717" in muhash.h).
Modulus == TwoToBits - MAX_PRIME_DIFF

\* IsOverflow with the bound on limb 0 one too high: P itself passes as reduced.
IsOverflow_OffByOne(lay, d) ==
    IF d[1] <= LimbMax(lay) - MAX_PRIME_DIFF + 1
    THEN FALSE
    ELSE \A i \in 2..lay.LIMBS : d[i] = LimbMax(lay)

\* IsOverflow: limbs[0] > max - MAX_PRIME_DIFF and every other limb is max.
IsOverflow(lay, d) ==
    IF d[1] <= LimbMax(lay) - MAX_PRIME_DIFF
    THEN FALSE
    ELSE \A i \in 2..lay.LIMBS : d[i] = LimbMax(lay)

\* FullReduce's loop from limb i on, c0 the running carry.
RECURSIVE FullReduceFrom(_, _, _, _)
FullReduceFrom(lay, d, i, c0) ==
    IF i > lay.LIMBS
    THEN d
    ELSE LET c == add2(lay, <<c0, 0>>, d[i])
         IN  FullReduceFrom(lay, [d EXCEPT ![i] = c[1]], i + 1, extract2(c)[1])

\* FullReduce that adds MAX_PRIME_DIFF to limb 0 and forgets the carry.
FullReduce_NoCarry(lay, d) ==
    [d EXCEPT ![1] = add2(lay, <<MAX_PRIME_DIFF, 0>>, d[1])[1]]

\* FullReduce: add MAX_PRIME_DIFF and drop the carry out of the top limb.
FullReduce(lay, d) == FullReduceFrom(lay, d, 1, MAX_PRIME_DIFF)

\* ------------------------------------------------------------------------
\* Multiply and Square.  Indices i, j, s are the source's (from 0).
\* ------------------------------------------------------------------------

\* The loop with i < hi for i <= hi: the last product is left out.
RECURSIVE MulAddLoop_OffByOne(_, _, _, _, _, _, _)
MulAddLoop_OffByOne(lay, c, x, a, i, hi, s) ==
    IF i >= hi
    THEN c
    ELSE MulAddLoop_OffByOne(lay, muladd3(lay, c, x[i + 1], a[s - i + 1]),
                             x, a, i + 1, hi, s)

\* for (i = lo; i <= hi; ++i) muladd3(c, x[i], a[s - i])
RECURSIVE MulAddLoop(_, _, _, _, _, _, _)
MulAddLoop(lay, c, x, a, i, hi, s) ==
    IF i > hi
    THEN c
    ELSE MulAddLoop(lay, muladd3(lay, c, x[i + 1], a[s - i + 1]), x, a, i + 1, hi, s)

\* for (i = lo; i < n; ++i) muldbladd3(c, x[i + off], x[s - i])
RECURSIVE MulDblAddLoop(_, _, _, _, _, _, _)
MulDblAddLoop(lay, c, x, i, n, off, s) ==
    IF i >= n
    THEN c
    ELSE MulDblAddLoop(lay, muldbladd3(lay, c, x[i + off + 1], x[s - i + 1]),
                       x, i + 1, n, off, s)

\* The second reduction's loop from limb j on (tmp added into the carry [c0,c1],
\* in_out written): the limbs written and the carry left.
RECURSIVE SecondReductionFrom(_, _, _, _, _)
SecondReductionFrom(lay, c, tmp, out, j) ==
    IF j > lay.LIMBS
    THEN [limbs |-> out, c |-> c]
    ELSE SecondReductionFrom(lay, extract2(add2(lay, c, tmp[j])), tmp,
                             [out EXCEPT ![j] = add2(lay, c, tmp[j])[1]], j + 1)

\* The tail of Multiply without the third reduction.
ThirdReduction_Skipped(lay, r) ==
    [limbs |-> r.limbs, ok |-> r.c[2] = 0 /\ r.c[1] \in {0, 1}]

\* After the second reduction: the DEBUG assertions (ok is FALSE when one
\* fails) and the potential third reduction, if (c0) FullReduce(in_out).
ThirdReduction(lay, r) ==
    [limbs |-> IF r.c[1] # 0 THEN FullReduce(lay, r.limbs) ELSE r.limbs,
     ok    |-> r.c[2] = 0 /\ r.c[1] \in {0, 1}]

\* The second reduction without the muln2 by MAX_PRIME_DIFF of the carry.
SecondReduction_NoMuln2(lay, r) ==
    ThirdReduction(lay, SecondReductionFrom(lay, r.c, r.tmp, r.tmp, 1))

\* The tail of Multiply and of Square, r.tmp and r.c = [c0,c1] as the first
\* loops leave them: muln2 by MAX_PRIME_DIFF, the second and third reductions.
SecondReduction(lay, r) ==
    ThirdReduction(lay,
        SecondReductionFrom(lay, muln2(lay, r.c, MAX_PRIME_DIFF), r.tmp, r.tmp, 1))

\* extract3 that stores the lowest limb and forgets to shift [c0,c1,c2].
Extract3Into_NoShift(e, tmp, j) ==
    [c |-> <<e[1], e[2]>>, tmp |-> [tmp EXCEPT ![j + 1] = e[1]]]

\* extract3(c0, c1, c2, tmp.limbs[j]) on the accumulator e, j from 0.
Extract3Into(e, tmp, j) ==
    [c |-> <<extract3(e)[1], extract3(e)[2]>>, tmp |-> [tmp EXCEPT ![j + 1] = e[1]]]

\* [d0,d1] of mul with d2 = 0.
WithZero(m) == <<m[1], m[2], 0>>

\* The state before the first row: c0 = c1 = 0, tmp unwritten (kept 0).
NoRows(lay) == [c |-> <<0, 0>>, tmp |-> [i \in 1..lay.LIMBS |-> 0]]

\* Row j of Multiply's first loop up to its extract3: [c0,c1,c2].
MultiplyRow(lay, x, a, j, c) ==
    MulAddLoop(lay,
        mulnadd3(lay, WithZero(c),
            MulAddLoop(lay,
                WithZero(mul(lay, x[1 + j + 1], a[lay.LIMBS + j - (1 + j) + 1])),
                x, a, 2 + j, lay.LIMBS - 1, lay.LIMBS + j),
            MAX_PRIME_DIFF),
        x, a, 0, j, j)

\* Rows j..LIMBS-2 of Multiply's first loop: tmp and the carry [c0,c1].
RECURSIVE MultiplyRows(_, _, _, _, _)
MultiplyRows(lay, x, a, j, r) ==
    IF j >= lay.LIMBS - 1
    THEN r
    ELSE MultiplyRows(lay, x, a, j + 1,
                      Extract3Into(MultiplyRow(lay, x, a, j, r.c), r.tmp, j))

\* "Compute limb N-1 of a*b into tmp."
MultiplyLastRow(lay, x, a, r) ==
    Extract3Into(MulAddLoop(lay, WithZero(r.c), x, a, 0, lay.LIMBS - 1, lay.LIMBS - 1),
                 r.tmp, lay.LIMBS - 1)

\* Multiply(in_out, a): the limbs left in in_out, and whether the DEBUG
\* assertions held.  a is read only before in_out is first written.
Multiply(lay, x, a) ==
    SecondReduction(lay,
        MultiplyLastRow(lay, x, a, MultiplyRows(lay, x, a, 0, NoRows(lay))))

\* The midpoint term selected by j & 1 for (j + 1) & 1.
MulAddIfOdd_WrongParity(lay, c, j, xi, xk) ==
    IF j % 2 = 1 THEN muladd3(lay, c, xi, xk) ELSE c

\* if ((j + 1) & 1) muladd3(c, x[i], x[k])
MulAddIfOdd(lay, c, j, xi, xk) ==
    IF (j + 1) % 2 = 1 THEN muladd3(lay, c, xi, xk) ELSE c

\* Row j of Square's first loop up to its extract3: [c0,c1,c2].
SquareRow(lay, x, j, c) ==
    MulAddIfOdd(lay,
        MulDblAddLoop(lay,
            mulnadd3(lay, WithZero(c),
                MulAddIfOdd(lay,
                    MulDblAddLoop(lay, <<0, 0, 0>>, x, 0, (lay.LIMBS - 1 - j) \div 2,
                                  j + 1, lay.LIMBS - 1),
                    j,
                    x[(lay.LIMBS - 1 - j) \div 2 + j + 1 + 1],
                    x[lay.LIMBS - 1 - (lay.LIMBS - 1 - j) \div 2 + 1]),
                MAX_PRIME_DIFF),
            x, 0, (j + 1) \div 2, 0, j),
        j, x[(j + 1) \div 2 + 1], x[j - (j + 1) \div 2 + 1])

\* Rows j..LIMBS-2 of Square's first loop.
RECURSIVE SquareRows(_, _, _, _)
SquareRows(lay, x, j, r) ==
    IF j >= lay.LIMBS - 1
    THEN r
    ELSE SquareRows(lay, x, j + 1, Extract3Into(SquareRow(lay, x, j, r.c), r.tmp, j))

\* The last limb of Square: LIMBS / 2 doubled products.
SquareLastRow(lay, x, r) ==
    Extract3Into(MulDblAddLoop(lay, WithZero(r.c), x, 0, lay.LIMBS \div 2, 0, lay.LIMBS - 1),
                 r.tmp, lay.LIMBS - 1)

\* Square(in_out)
Square(lay, x) ==
    SecondReduction(lay, SquareLastRow(lay, x, SquareRows(lay, x, 0, NoRows(lay))))

\* ------------------------------------------------------------------------
\* Carries: where a primitive drops a carry out of its top limb, and whether
\* any call made by Multiply or by Square does.
\* ------------------------------------------------------------------------

\* muladd3: c2 += (c1 < th) ? 1 : 0 wraps.
muladd3_lost(lay, c, a, b) == muladd3(lay, c, a, b)[3] < c[3]

\* muldbladd3: one of its two increments of c2 wraps.
muldbladd3_lost(lay, c, a, b) == muldbladd3(lay, c, a, b)[3] < c[3]

\* mulnadd3: the sum t + d2 * n assigned to c2, before it is cut to a limb.
mulnadd3_top(lay, c, d, n) ==
    LET B  == Base(lay)
        t0 == (d[1] * n + c[1]) % (B * B)
        t1 == ((t0 \div B) + d[2] * n + c[2]) % (B * B)
    IN  (t1 \div B) + d[3] * n

\* mulnadd3: c2 = t + d2 * n does not fit a limb.
mulnadd3_lost(lay, c, d, n) == mulnadd3_top(lay, c, d, n) >= Base(lay)

\* muln2: what is left in t after c1 = t; t >>= LIMB_SIZE (dropped; the
\* DEBUG build asserts it is 0).
muln2_top(lay, c, n) ==
    (((c[1] * n) % (Base(lay) * Base(lay))) \div Base(lay) + c[2] * n) \div Base(lay)

\* Some muladd3 of the loop drops a carry.
RECURSIVE MulAddLoopLost(_, _, _, _, _, _, _)
MulAddLoopLost(lay, c, x, a, i, hi, s) ==
    IF i > hi
    THEN FALSE
    ELSE \/ muladd3_lost(lay, c, x[i + 1], a[s - i + 1])
         \/ MulAddLoopLost(lay, muladd3(lay, c, x[i + 1], a[s - i + 1]),
                           x, a, i + 1, hi, s)

\* Some muldbladd3 of the loop drops a carry.
RECURSIVE MulDblAddLoopLost(_, _, _, _, _, _, _)
MulDblAddLoopLost(lay, c, x, i, n, off, s) ==
    IF i >= n
    THEN FALSE
    ELSE \/ muldbladd3_lost(lay, c, x[i + off + 1], x[s - i + 1])
         \/ MulDblAddLoopLost(lay, muldbladd3(lay, c, x[i + off + 1], x[s - i + 1]),
                              x, i + 1, n, off, s)

\* The upper products [d0,d1,d2] of row j of Multiply.
MultiplyRowHigh(lay, x, a, j) ==
    MulAddLoop(lay, WithZero(mul(lay, x[1 + j + 1], a[lay.LIMBS + j - (1 + j) + 1])),
               x, a, 2 + j, lay.LIMBS - 1, lay.LIMBS + j)

\* Row j of Multiply from mulnadd3 on, d the upper products: a carry is dropped.
MultiplyRowLowLost(lay, x, a, j, c, d) ==
    \/ mulnadd3_lost(lay, WithZero(c), d, MAX_PRIME_DIFF)
    \/ MulAddLoopLost(lay, mulnadd3(lay, WithZero(c), d, MAX_PRIME_DIFF), x, a, 0, j, j)

\* Row j of Multiply drops a carry.
MultiplyRowLost(lay, x, a, j, c) ==
    \/ MulAddLoopLost(lay, WithZero(mul(lay, x[1 + j + 1], a[lay.LIMBS + j - (1 + j) + 1])),
                      x, a, 2 + j, lay.LIMBS - 1, lay.LIMBS + j)
    \/ MultiplyRowLowLost(lay, x, a, j, c, MultiplyRowHigh(lay, x, a, j))

\* Some row j.. of Multiply's first loop drops a carry.
RECURSIVE MultiplyRowsLost(_, _, _, _, _)
MultiplyRowsLost(lay, x, a, j, r) ==
    IF j >= lay.LIMBS - 1
    THEN FALSE
    ELSE \/ MultiplyRowLost(lay, x, a, j, r.c)
         \/ MultiplyRowsLost(lay, x, a, j + 1,
                             Extract3Into(MultiplyRow(lay, x, a, j, r.c), r.tmp, j))

\* The last row of Multiply or the muln2 after it drops a carry, r as the
\* first loop leaves it.
MultiplyTailLost(lay, x, a, r) ==
    \/ MulAddLoopLost(lay, WithZero(r.c), x, a, 0, lay.LIMBS - 1, lay.LIMBS - 1)
    \/ muln2_top(lay, MultiplyLastRow(lay, x, a, r).c, MAX_PRIME_DIFF) # 0

\* Multiply(in_out, a) drops a carry out of a 3-limb accumulator or out of muln2.
MultiplyLost(lay, x, a) ==
    \/ MultiplyRowsLost(lay, x, a, 0, NoRows(lay))
    \/ MultiplyTailLost(lay, x, a, MultiplyRows(lay, x, a, 0, NoRows(lay)))

\* if ((j + 1) & 1) muladd3(c, xi, xk) drops a carry.
MulAddIfOddLost(lay, c, j, xi, xk) ==
    (j + 1) % 2 = 1 /\ muladd3_lost(lay, c, xi, xk)

\* The doubled upper products of row j of Square, before the midpoint term.
SquareRowHighDbl(lay, x, j) ==
    MulDblAddLoop(lay, <<0, 0, 0>>, x, 0, (lay.LIMBS - 1 - j) \div 2, j + 1, lay.LIMBS - 1)

\* The upper products [d0,d1,d2] of row j of Square.
SquareRowHigh(lay, x, j) ==
    MulAddIfOdd(lay, SquareRowHighDbl(lay, x, j), j,
                x[(lay.LIMBS - 1 - j) \div 2 + j + 1 + 1],
                x[lay.LIMBS - 1 - (lay.LIMBS - 1 - j) \div 2 + 1])

\* The upper products of row j of Square drop a carry.
SquareRowHighLost(lay, x, j) ==
    \/ MulDblAddLoopLost(lay, <<0, 0, 0>>, x, 0, (lay.LIMBS - 1 - j) \div 2,
                         j + 1, lay.LIMBS - 1)
    \/ MulAddIfOddLost(lay, SquareRowHighDbl(lay, x, j), j,
                       x[(lay.LIMBS - 1 - j) \div 2 + j + 1 + 1],
                       x[lay.LIMBS - 1 - (lay.LIMBS - 1 - j) \div 2 + 1])

\* Row j of Square after mulnadd3, c the accumulator it left: a carry is dropped.
SquareRowLowLost(lay, x, j, c) ==
    \/ MulDblAddLoopLost(lay, c, x, 0, (j + 1) \div 2, 0, j)
    \/ MulAddIfOddLost(lay, MulDblAddLoop(lay, c, x, 0, (j + 1) \div 2, 0, j),
                       j, x[(j + 1) \div 2 + 1], x[j - (j + 1) \div 2 + 1])

\* Row j of Square drops a carry.
SquareRowLost(lay, x, j, c) ==
    \/ SquareRowHighLost(lay, x, j)
    \/ mulnadd3_lost(lay, WithZero(c), SquareRowHigh(lay, x, j), MAX_PRIME_DIFF)
    \/ SquareRowLowLost(lay, x, j,
           mulnadd3(lay, WithZero(c), SquareRowHigh(lay, x, j), MAX_PRIME_DIFF))

\* Some row j.. of Square's first loop drops a carry.
RECURSIVE SquareRowsLost(_, _, _, _)
SquareRowsLost(lay, x, j, r) ==
    IF j >= lay.LIMBS - 1
    THEN FALSE
    ELSE \/ SquareRowLost(lay, x, j, r.c)
         \/ SquareRowsLost(lay, x, j + 1,
                           Extract3Into(SquareRow(lay, x, j, r.c), r.tmp, j))

\* The last row of Square or the muln2 after it drops a carry.
SquareTailLost(lay, x, r) ==
    \/ MulDblAddLoopLost(lay, WithZero(r.c), x, 0, lay.LIMBS \div 2, 0, lay.LIMBS - 1)
    \/ muln2_top(lay, SquareLastRow(lay, x, r).c, MAX_PRIME_DIFF) # 0

\* Square(in_out) drops a carry out of a 3-limb accumulator or out of muln2.
SquareLost(lay, x) ==
    \/ SquareRowsLost(lay, x, 0, NoRows(lay))
    \/ SquareTailLost(lay, x, SquareRows(lay, x, 0, NoRows(lay)))

\* Some row j.. of Multiply calls mulnadd3 with c2 not 0 or with a sum that
\* does not fit in three limbs.
RECURSIVE MultiplyMulnadd3Overflows(_, _, _, _, _)
MultiplyMulnadd3Overflows(lay, x, a, j, r) ==
    IF j >= lay.LIMBS - 1
    THEN FALSE
    ELSE \/ WithZero(r.c)[3] # 0
         \/ mulnadd3_lost(lay, WithZero(r.c), MultiplyRowHigh(lay, x, a, j), MAX_PRIME_DIFF)
         \/ MultiplyMulnadd3Overflows(lay, x, a, j + 1,
                Extract3Into(MultiplyRow(lay, x, a, j, r.c), r.tmp, j))

\* Some row j.. of Square calls mulnadd3 with c2 not 0 or with a sum that does
\* not fit in three limbs.
RECURSIVE SquareMulnadd3Overflows(_, _, _, _)
SquareMulnadd3Overflows(lay, x, j, r) ==
    IF j >= lay.LIMBS - 1
    THEN FALSE
    ELSE \/ WithZero(r.c)[3] # 0
         \/ mulnadd3_lost(lay, WithZero(r.c), SquareRowHigh(lay, x, j), MAX_PRIME_DIFF)
         \/ SquareMulnadd3Overflows(lay, x, j + 1,
                Extract3Into(SquareRow(lay, x, j, r.c), r.tmp, j))

\* ------------------------------------------------------------------------
\* Inverse
\* ------------------------------------------------------------------------

\* The last index of the repunit table p (11 in the source, p[12]).
TABLE_TOP == 4

\* After x = p[TABLE_TOP]: <<k, i>> is "k times Square(&x); Multiply(&x, &p[i])".
\* The exponent assembled is P - 2 = 2^24 - 5: twenty-one ones, then 011.
INVERSE_SCHEDULE == << <<4, 2>>, <<1, 0>>, <<3, 1>> >>

\* A Multiply/Square result m reached after assertions that held iff ok.
AndOk(m, ok) == [limbs |-> m.limbs, ok |-> ok /\ m.ok]

\* for (j = 0; j < k; ++j) Square(&x), x a Multiply/Square result; a failed
\* DEBUG assertion aborts, so nothing runs after it.
RECURSIVE SquareTimes(_, _, _)
SquareTimes(lay, r, k) ==
    IF k = 0 \/ ~r.ok
    THEN r
    ELSE SquareTimes(lay, AndOk(Square(lay, r.limbs), r.ok), k - 1)

\* Multiply(&x, &p): x a Multiply/Square result, p limbs
MultiplyInto(lay, r, p) ==
    IF r.ok THEN Multiply(lay, r.limbs, p) ELSE r

\* p[i + 1] = q appended to the table t.
TableAppend(t, q) == [p |-> Append(t.p, q.limbs), ok |-> q.ok]

\* The table loop: p[i + 1] = p[i] squared 2^i times, times p[i].  t.p holds
\* p[0..i] (as t.p[1..i+1]) on entry; t.ok collects the DEBUG assertions.
RECURSIVE InverseTable(_, _, _)
InverseTable(lay, t, i) ==
    IF i >= TABLE_TOP \/ ~t.ok
    THEN t
    ELSE InverseTable(lay,
             TableAppend(t,
                 MultiplyInto(lay,
                     SquareTimes(lay, [limbs |-> t.p[i + 1], ok |-> t.ok], 2 ^ i),
                     t.p[i + 1])),
             i + 1)

\* The schedule from step n on.
RECURSIVE InverseSteps(_, _, _, _)
InverseSteps(lay, p, r, n) ==
    IF n > Len(INVERSE_SCHEDULE) \/ ~r.ok
    THEN r
    ELSE InverseSteps(lay, p,
             MultiplyInto(lay, SquareTimes(lay, r, INVERSE_SCHEDULE[n][1]),
                          p[INVERSE_SCHEDULE[n][2] + 1]),
             n + 1)

\* x = p[TABLE_TOP], then the schedule; *out = x.
InverseFromTable(lay, t) ==
    IF t.ok
    THEN InverseSteps(lay, t.p, [limbs |-> t.p[TABLE_TOP + 1], ok |-> TRUE], 1)
    ELSE [limbs |-> t.p[1], ok |-> FALSE]

\* Inverse(out, a): a^(P-2)
Inverse(lay, a) ==
    InverseFromTable(lay, InverseTable(lay, [p |-> <<a>>, ok |-> TRUE], 0))

\* ------------------------------------------------------------------------
\* Inverse at full scale: the exponent of a that each Num3072 of Inverse
\* holds.  Square doubles the exponent, Multiply adds the exponents.  An
\* exponent is a tuple of ExpDigits digits in base ExpBase, least significant
\* first.
\* ------------------------------------------------------------------------

\* LIMB_SIZE * LIMBS of the source.
NUM_BITS == 3072

\* MAX_PRIME_DIFF of the source.
MAX_PRIME_DIFF_3072 == 1103717

\* The last index of the repunit table p of the source (Num3072 p[12]).
TABLE_TOP_3072 == 11

\* The schedule with p[0] for p[1] in its last step but one.
INVERSE_SCHEDULE_WRONG_STEP ==
    << <<512, 9>>, <<256, 8>>, <<128, 7>>, <<64, 6>>, <<32, 5>>, <<8, 3>>, <<2, 1>>,
       <<1, 0>>, <<5, 2>>, <<3, 0>>, <<2, 0>>, <<4, 0>>, <<4, 0>>, <<3, 0>> >>

\* The schedule of the source after x = p[11]: <<k, i>> is
\* "for (j = 0; j < k; ++j) Square(&x); Multiply(&x, &p[i])".
INVERSE_SCHEDULE_3072 ==
    << <<512, 9>>, <<256, 8>>, <<128, 7>>, <<64, 6>>, <<32, 5>>, <<8, 3>>, <<2, 1>>,
       <<1, 0>>, <<5, 2>>, <<3, 0>>, <<2, 0>>, <<4, 0>>, <<4, 1>>, <<3, 0>> >>

ExpBase == 2 ^ 30

\* Bits in a digit.
ExpBits == CHOOSE k \in 1..30 : 2 ^ k = ExpBase

\* Digits of an exponent: room for 2^NUM_BITS.
ExpDigits == NUM_BITS \div ExpBits + 1

\* The exponent v, for a small v.
ExpFromInt(v) ==
    [k \in 1..ExpDigits |->
        IF k = 1 THEN v % ExpBase ELSE IF k = 2 THEN (v \div ExpBase) % ExpBase ELSE 0]

\* Square: the exponent doubles.
ExpDouble(e) ==
    [k \in 1..ExpDigits |->
        (2 * e[k] + (IF k > 1 /\ e[k - 1] >= ExpBase \div 2 THEN 1 ELSE 0)) % ExpBase]

\* The carry into digit k of a + b: some lower digit m generates a carry and
\* every digit between m and k passes it on.
ExpCarry(a, b, k) ==
    IF \E m \in 1..(k - 1) :
           /\ a[m] + b[m] >= ExpBase
           /\ \A q \in (m + 1)..(k - 1) : a[q] + b[q] = ExpBase - 1
    THEN 1
    ELSE 0

\* Multiply: the exponents add.
ExpAdd(a, b) ==
    [k \in 1..ExpDigits |-> (a[k] + b[k] + ExpCarry(a, b, k)) % ExpBase]

\* 2^n - 1
ExpRepunit(n) ==
    [k \in 1..ExpDigits |->
        IF ExpBits * k <= n THEN ExpBase - 1
        ELSE IF ExpBits * (k - 1) < n THEN 2 ^ (n - ExpBits * (k - 1)) - 1
        ELSE 0]

\* 2^n
ExpPowerOfTwo(n) ==
    [k \in 1..ExpDigits |-> IF k = n \div ExpBits + 1 THEN 2 ^ (n % ExpBits) ELSE 0]

\* ------------------------------------------------------------------------
\* Bytes, keystreams and the MuHash3072 facade
\* ------------------------------------------------------------------------

\* 2^BYTE_BITS
ByteBase == 2 ^ BYTE_BITS

\* ReadLE32 / ReadLE64 (crypto/common.h): the n bytes after offset off,
\* least significant first.
RECURSIVE ReadLE(_, _, _)
ReadLE(bytes, off, n) ==
    IF n = 0 THEN 0 ELSE bytes[off + 1] + ByteBase * ReadLE(bytes, off + 1, n - 1)

\* WriteLE32 / WriteLE64 (crypto/common.h): x as n bytes, least significant first.
RECURSIVE WriteLE(_, _)
WriteLE(x, n) ==
    IF n = 0 THEN <<>> ELSE <<x % ByteBase>> \o WriteLE(x \div ByteBase, n - 1)

\* The keys of the model and the integer whose little-endian OUTPUT_SIZE bytes
\* ChaCha20(key).Keystream yields for each: zero, an ordinary value, P + 1, a
\* one-limb value, P - 1, P and 2^24 - 1, where P = 16777213 is the modulus.
KEY_VALUES == <<0, 10116151, 16777214, 5, 16777212, 16777213, 16777215>>

Keys == 1..Len(KEY_VALUES)

\* ChaCha20(key32).Keystream(tmp, OUTPUT_SIZE)
Keystream(key) == WriteLE(KEY_VALUES[key], OUTPUT_SIZE)

\* The constructor that clears every limb, limb 0 included.
MuHash3072_AllZero(lay) == [i \in 1..lay.LIMBS |-> 0]

\* MuHash3072::MuHash3072(): the limbs of the empty set.
MuHash3072(lay) == [i \in 1..lay.LIMBS |-> IF i = 1 THEN 1 ELSE 0]

\* The constructor that reads every limb with the narrow layout's ReadLE.
MuHash3072Key_NarrowRead(lay, key) ==
    LET tmp == Keystream(key)
    IN  [i \in 1..lay.LIMBS |->
            ReadLE(tmp, SizeofLimb(lay) * (i - 1), SizeofLimb(Narrow))]

\* MuHash3072::MuHash3072(key32): the limbs read from the keystream.
MuHash3072Key(lay, key) ==
    LET tmp == Keystream(key)
    IN  [i \in 1..lay.LIMBS |-> ReadLE(tmp, SizeofLimb(lay) * (i - 1), SizeofLimb(lay))]

\* Finalize that calls FullReduce whether or not IsOverflow.
FinalizeData_Always(lay, d) == FullReduce(lay, d)

\* What Finalize leaves in data: FullReduce when IsOverflow.
FinalizeData(lay, d) == IF IsOverflow(lay, d) THEN FullReduce(lay, d) ELSE d

\* The WriteLE loop of Finalize from limb i on.
RECURSIVE WriteLimbs(_, _, _)
WriteLimbs(lay, d, i) ==
    IF i > lay.LIMBS
    THEN <<>>
    ELSE WriteLE(d[i], SizeofLimb(lay)) \o WriteLimbs(lay, d, i + 1)

\* The bytes Finalize writes to hash384.
FinalizeBytes(lay, d) == WriteLimbs(lay, FinalizeData(lay, d), 1)

\* operator*=: Multiply(&this->data, &x.data)
MulAssign(lay, d, x) == Multiply(lay, d, x)

\* Multiply(&this->data, &tmp) of operator/=, tmp the result of Inverse.
MultiplyByInverse(lay, d, tmp) ==
    IF tmp.ok THEN Multiply(lay, d, tmp.limbs) ELSE [limbs |-> d, ok |-> FALSE]

\* operator/= without the Inverse: the operand itself is multiplied in.
DivAssign_NoInverse(lay, d, x) == Multiply(lay, d, x)

\* operator/= that leaves the object alone when the operand holds 0.
DivAssign_RejectZero(lay, d, x) ==
    IF Value(lay, x) = 0
    THEN [limbs |-> d, ok |-> TRUE]
    ELSE MultiplyByInverse(lay, d, Inverse(lay, x))

\* operator/=: Inverse(&tmp, &x.data); Multiply(&this->data, &tmp)
DivAssign(lay, d, x) == MultiplyByInverse(lay, d, Inverse(lay, x))

\* ------------------------------------------------------------------------
\* The state machine: MuHash3072 objects, each kept in both layouts and driven
\* by the same operations.
\* ------------------------------------------------------------------------

\* The accumulator objects.
Objs == {1, 2}

\* Operations in a run of Spec, of FanSpec and of MulSpec.
MaxOps == 3

MaxFanOps == 4

MaxMulOps == 2

\* The keys of the elements inserted and deleted by one worker: zero, an
\* ordinary value, P + 1 and P.
UpdateKeys == {1, 2, 3, 6}

\* The keys of the elements the two workers insert: zero, an ordinary value, P + 1.
FanKeys == {1, 2, 3}

VARIABLES
    data,     \* data[o].wide, data[o].narrow: the limbs of object o's Num3072
    hash384,  \* hash384[o]: the buffer the last Finalize of o wrote, per layout
    ops,      \* ops[o]: the operations applied to o since its construction
    trapped,  \* a DEBUG assertion has failed: the process has aborted
    budget,   \* operations the run may still make
    inv,      \* a run of Inverse at full scale: its position and its exponents
    regs      \* a call of mulnadd3 on its own: the limbs it is given and leaves

vars == <<data, hash384, ops, trapped, budget, inv, regs>>

\* No call of mulnadd3 on its own.
NoCall == [pc |-> "idle"]

\* No run of Inverse is followed.
NoInverse == [pc |-> "idle"]

\* An entry of ops: the operation, its key (for "join" the other object; 0:
\* none) and, for "join", the other object's own history.
Op(op, key, arg) == [op |-> op, key |-> key, arg |-> arg]

\* Both layouts of a value built per layout.
Identity == [wide |-> MuHash3072(Wide), narrow |-> MuHash3072(Narrow)]

Singleton(key) == [wide |-> MuHash3072Key(Wide, key), narrow |-> MuHash3072Key(Narrow, key)]

LimbsOf(r) == [wide |-> r.wide.limbs, narrow |-> r.narrow.limbs]

OkOf(r) == r.wide.ok /\ r.narrow.ok

MulAssignBoth(d, x) ==
    [wide |-> MulAssign(Wide, d.wide, x.wide), narrow |-> MulAssign(Narrow, d.narrow, x.narrow)]

DivAssignBoth(d, x) ==
    [wide |-> DivAssign(Wide, d.wide, x.wide), narrow |-> DivAssign(Narrow, d.narrow, x.narrow)]

FinalizeDataBoth(d) ==
    [wide |-> FinalizeData(Wide, d.wide), narrow |-> FinalizeData(Narrow, d.narrow)]

\* What Finalize would write for a copy of d (FinalizeHash in
\* node/coinstats.cpp finalizes a copy).
Digest(d) ==
    [wide |-> FinalizeBytes(Wide, d.wide), narrow |-> FinalizeBytes(Narrow, d.narrow)]

\* Construction: every object is the empty set, no buffer is written yet.
Init ==
    /\ data = [o \in Objs |-> Identity]
    /\ hash384 = [o \in Objs |-> <<>>]
    /\ ops = [o \in Objs |-> <<>>]
    /\ trapped = FALSE
    /\ budget = MaxOps
    /\ inv = NoInverse
    /\ regs = NoCall

\* One more operation, unless the process has aborted.
Step ==
    /\ ~trapped
    /\ budget > 0
    /\ budget' = budget - 1
    /\ UNCHANGED <<inv, regs>>

\* The update r (per layout: limbs and whether the assertions held) lands in o.
Update(o, r) ==
    /\ data' = [data EXCEPT ![o] = LimbsOf(r)]
    /\ trapped' = ~OkOf(r)

\* o = MuHash3072(key): o is constructed as a singleton instead.
Construct(o, key) ==
    /\ Step
    /\ ops[o] = <<>>
    /\ data' = [data EXCEPT ![o] = Singleton(key)]
    /\ ops' = [ops EXCEPT ![o] = <<Op("key", key, <<>>)>>]
    /\ UNCHANGED <<hash384, trapped>>

\* o *= MuHash3072(key)
Insert(o, key) ==
    /\ Step
    /\ Update(o, MulAssignBoth(data[o], Singleton(key)))
    /\ ops' = [ops EXCEPT ![o] = Append(@, Op("mul", key, <<>>))]
    /\ UNCHANGED hash384

\* o /= MuHash3072(key)
Remove(o, key) ==
    /\ Step
    /\ Update(o, DivAssignBoth(data[o], Singleton(key)))
    /\ ops' = [ops EXCEPT ![o] = Append(@, Op("div", key, <<>>))]
    /\ UNCHANGED hash384

\* o *= o2 (o2 may be o itself)
Join(o, o2) ==
    /\ Step
    /\ Update(o, MulAssignBoth(data[o], data[o2]))
    /\ ops' = [ops EXCEPT ![o] = Append(@, Op("join", o2, ops[o2]))]
    /\ UNCHANGED hash384

\* o.Finalize(hash384[o])
Finalize(o) ==
    /\ Step
    /\ data' = [data EXCEPT ![o] = FinalizeDataBoth(@)]
    /\ hash384' = [hash384 EXCEPT ![o] = Digest(data[o])]
    /\ ops' = [ops EXCEPT ![o] = Append(@, Op("fin", 0, <<>>))]
    /\ UNCHANGED trapped

\* One accumulator, constructed empty or from a key, then updated and finalized.
Next ==
    \/ \E key \in Keys : Construct(1, key)
    \/ \E key \in UpdateKeys : Insert(1, key)
    \/ \E key \in UpdateKeys : Remove(1, key)
    \/ Finalize(1)

Spec == Init /\ [][Next]_vars

\* Fan-out / fan-in: two workers' accumulators, each constructed and filled on
\* its own, and combined by operator*=.
FanInit ==
    /\ data = [o \in Objs |-> Identity]
    /\ hash384 = [o \in Objs |-> <<>>]
    /\ ops = [o \in Objs |-> <<>>]
    /\ trapped = FALSE
    /\ budget = MaxFanOps
    /\ inv = NoInverse
    /\ regs = NoCall

FanNext ==
    \/ \E o \in Objs, key \in Keys : Construct(o, key)
    \/ \E o \in Objs, key \in FanKeys : Insert(o, key)
    \/ \E o \in Objs : \E o2 \in Objs \ {o} : Join(o, o2)

FanSpec == FanInit /\ [][FanNext]_vars

\* Operand values for Multiply: the key values, 1, 2 and values at the limb
\* boundaries of both layouts.
OPERAND_VALUES ==
    {0, 1, 2, 5, 63, 64, 4095, 4096, 10116151, 16777212, 16777213, 16777214, 16777215}

\* The object (both layouts) whose keystream spells the integer v.
Inject(v) ==
    [wide   |-> [i \in 1..Wide.LIMBS |->
                    ReadLE(WriteLE(v, OUTPUT_SIZE), SizeofLimb(Wide) * (i - 1), SizeofLimb(Wide))],
     narrow |-> [i \in 1..Narrow.LIMBS |->
                    ReadLE(WriteLE(v, OUTPUT_SIZE), SizeofLimb(Narrow) * (i - 1), SizeofLimb(Narrow))]]

\* Two objects holding any two operand values, multiplied into each other and
\* into themselves.
MulInit ==
    /\ data \in [Objs -> {Inject(v) : v \in OPERAND_VALUES}]
    /\ hash384 = [o \in Objs |-> <<>>]
    /\ ops = [o \in Objs |-> <<>>]
    /\ trapped = FALSE
    /\ budget = MaxMulOps
    /\ inv = NoInverse
    /\ regs = NoCall

MulNext == \E o \in Objs, o2 \in Objs : Join(o, o2)

MulSpec == MulInit /\ [][MulNext]_vars

\* Square(&o.data), as Inverse calls it on its table entries and on x.
SquareBoth(d) ==
    [wide |-> Square(Wide, d.wide), narrow |-> Square(Narrow, d.narrow)]

SquareObj(o) ==
    /\ Step
    /\ Update(o, SquareBoth(data[o]))
    /\ ops' = [ops EXCEPT ![o] = Append(@, Op("sq", o, <<>>))]
    /\ UNCHANGED hash384

\* Two Num3072 holding any two operand values, multiplied and squared.
ArithNext ==
    \/ \E o \in Objs, o2 \in Objs : Join(o, o2)
    \/ \E o \in Objs : SquareObj(o)

ArithSpec == MulInit /\ [][ArithNext]_vars

\* Inverse(out, a) is entered: p[0] = *a holds a^1.  inv.p[i + 1] is the
\* exponent of p[i], inv.x that of x, inv.out that of *out; inv.sq counts the
\* calls of Square.
InvInit ==
    /\ data = [o \in Objs |-> Identity]
    /\ hash384 = [o \in Objs |-> <<>>]
    /\ ops = [o \in Objs |-> <<>>]
    /\ trapped = FALSE
    /\ budget = 0
    /\ inv = [pc |-> "loop", i |-> 0, j |-> 0, n |-> 0, p |-> <<ExpFromInt(1)>>,
              x |-> ExpFromInt(0), out |-> ExpFromInt(0), sq |-> 0]
    /\ regs = NoCall

\* A step of Inverse touches no MuHash3072 object.
InvFrame == UNCHANGED <<data, hash384, ops, trapped, budget, regs>>

\* p[i + 1] = p[i]
InvCopy ==
    /\ inv.pc = "loop"
    /\ inv.i < TABLE_TOP_3072
    /\ inv' = [inv EXCEPT !.pc = "square", !.j = 0, !.p = Append(@, inv.p[inv.i + 1])]
    /\ InvFrame

\* for (j < (1 << i)) Square(&p[i + 1])
InvTableSquare ==
    /\ inv.pc = "square"
    /\ inv.j < 2 ^ inv.i
    /\ inv' = [inv EXCEPT !.j = @ + 1, !.sq = @ + 1,
                          !.p[inv.i + 2] = ExpDouble(@)]
    /\ InvFrame

\* Multiply(&p[i + 1], &p[i]); ++i
InvTableMultiply ==
    /\ inv.pc = "square"
    /\ inv.j >= 2 ^ inv.i
    /\ inv' = [inv EXCEPT !.pc = "loop", !.i = @ + 1,
                          !.p[inv.i + 2] = ExpAdd(@, inv.p[inv.i + 1])]
    /\ InvFrame

\* x = p[11]
InvTakeTop ==
    /\ inv.pc = "loop"
    /\ inv.i >= TABLE_TOP_3072
    /\ inv' = [inv EXCEPT !.pc = "schedule", !.n = 1, !.j = 0,
                          !.x = inv.p[TABLE_TOP_3072 + 1]]
    /\ InvFrame

\* for (j < k) Square(&x)
InvSquare ==
    /\ inv.pc = "schedule"
    /\ inv.n <= Len(INVERSE_SCHEDULE_3072)
    /\ inv.j < INVERSE_SCHEDULE_3072[inv.n][1]
    /\ inv' = [inv EXCEPT !.j = @ + 1, !.sq = @ + 1, !.x = ExpDouble(@)]
    /\ InvFrame

\* Multiply(&x, &p[i])
InvMultiply ==
    /\ inv.pc = "schedule"
    /\ inv.n <= Len(INVERSE_SCHEDULE_3072)
    /\ inv.j >= INVERSE_SCHEDULE_3072[inv.n][1]
    /\ inv' = [inv EXCEPT !.n = @ + 1, !.j = 0,
                          !.x = ExpAdd(@, inv.p[INVERSE_SCHEDULE_3072[inv.n][2] + 1])]
    /\ InvFrame

\* *out = x
InvReturn ==
    /\ inv.pc = "schedule"
    /\ inv.n > Len(INVERSE_SCHEDULE_3072)
    /\ inv' = [inv EXCEPT !.pc = "done", !.out = inv.x]
    /\ InvFrame

InvNext ==
    \/ InvCopy
    \/ InvTableSquare
    \/ InvTableMultiply
    \/ InvTakeTop
    \/ InvSquare
    \/ InvMultiply
    \/ InvReturn

InvSpec == InvInit /\ [][InvNext]_vars

\* Two objects holding any two operand values, finalized.
FinalizeNext == \E o \in Objs : Finalize(o)

FinalizeSpec == MulInit /\ [][FinalizeNext]_vars

\* Limb values a call is tried with: 0, 1, MAX_PRIME_DIFF and the largest limb.
LimbValues(lay) == {0, 1, MAX_PRIME_DIFF, LimbMax(lay)}

\* The 3-limb accumulators of those limb values.
Triples(lay) == {<<t0, t1, t2>> : t0 \in LimbValues(lay), t1 \in {0, LimbMax(lay)},
                                  t2 \in {0, 1, LimbMax(lay)}}

\* mulnadd3 is about to be called with any c0, c1, c2, d0, d1, d2 and n, in
\* either layout; regs.old keeps the accumulator as given.
PrimInit ==
    /\ data = [o \in Objs |-> Identity]
    /\ hash384 = [o \in Objs |-> <<>>]
    /\ ops = [o \in Objs |-> <<>>]
    /\ trapped = FALSE
    /\ budget = 0
    /\ inv = NoInverse
    /\ \E b \in Layouts :
       \E c \in Triples(Layout(b)), d \in Triples(Layout(b)), n \in LimbValues(Layout(b)) :
           regs = [pc |-> "call", lay |-> b, c |-> c, old |-> c, d |-> d, n |-> n]

\* mulnadd3(c0, c1, c2, d0, d1, d2, n)
CallMulnadd3 ==
    /\ regs.pc = "call"
    /\ regs' = [regs EXCEPT !.pc = "returned",
                            !.c = mulnadd3(Layout(regs.lay), regs.c, regs.d, regs.n)]
    /\ UNCHANGED <<data, hash384, ops, trapped, budget, inv>>

\* mulnadd3 on its own with any limbs, or within Multiply and Square on any
\* two operand values.
PrimSpecInit == PrimInit \/ MulInit

PrimNext ==
    \/ CallMulnadd3
    \/ \E o \in Objs, o2 \in Objs : Join(o, o2)
    \/ \E o \in Objs : SquareObj(o)

PrimSpec == PrimSpecInit /\ [][PrimNext]_vars

\* ------------------------------------------------------------------------
\* Histories: the accumulator a sequence of operations builds, the canonical
\* order of a multiset of updates, and the reference product modulo P.
\* ------------------------------------------------------------------------

\* d multiplied by the accumulator d2 of another history.
ReplayJoin(d, d2) ==
    IF Len(d2.wide) # Wide.LIMBS THEN d ELSE LimbsOf(MulAssignBoth(d, d2))

\* The accumulator (both layouts) that the operations h[i..] make of d.  The
\* test of d's length has d evaluated before the next operation is applied.
RECURSIVE ReplayFrom(_, _, _)
ReplayFrom(d, h, i) ==
    IF i > Len(h) \/ Len(d.wide) # Wide.LIMBS
    THEN d
    ELSE ReplayFrom(
             CASE h[i].op = "key"  -> Singleton(h[i].key)
               [] h[i].op = "mul"  -> LimbsOf(MulAssignBoth(d, Singleton(h[i].key)))
               [] h[i].op = "div"  -> LimbsOf(DivAssignBoth(d, Singleton(h[i].key)))
               [] h[i].op = "fin"  -> FinalizeDataBoth(d)
               [] h[i].op = "join" -> ReplayJoin(d, ReplayFrom(Identity, h[i].arg, 1)),
             h, i + 1)

\* The accumulator a default-constructed object becomes under the history h.
Replay(h) == ReplayFrom(Identity, h, 1)

\* Only inserts and deletes.
PureUpdates(h) == \A i \in 1..Len(h) : h[i].op \in {"mul", "div"}

\* The place of an update in the canonical order of a multiset of updates.
Rank(e) == 2 * e.key + (IF e.op = "div" THEN 1 ELSE 0)

RECURSIVE InsertSorted(_, _)
InsertSorted(e, h) ==
    IF h = <<>> \/ Rank(e) <= Rank(Head(h))
    THEN <<e>> \o h
    ELSE <<Head(h)>> \o InsertSorted(e, Tail(h))

\* The updates of h in canonical order: one fixed permutation of the multiset.
RECURSIVE SortOps(_)
SortOps(h) == IF h = <<>> THEN <<>> ELSE InsertSorted(Head(h), SortOps(Tail(h)))

\* The elements a history put into its accumulator, those of the accumulators
\* multiplied into it included (a constructing key is an element).
RECURSIVE ElementsFrom(_, _)
ElementsFrom(h, i) ==
    IF i > Len(h)
    THEN <<>>
    ELSE (CASE h[i].op \in {"key", "mul"} -> <<h[i].key>>
            [] h[i].op = "join"          -> ElementsFrom(h[i].arg, 1)
            [] OTHER                     -> <<>>)
         \o ElementsFrom(h, i + 1)

Elements(h) == ElementsFrom(h, 1)

\* The history that inserts the elements one after the other.
AsInserts(keys) == [i \in 1..Len(keys) |-> Op("mul", keys[i], <<>>)]

\* h without its Finalize calls.
StripFin(h) == SelectSeq(h, LAMBDA e : e.op # "fin")

\* h without its last n entries.
DropLast(h, n) == SubSeq(h, 1, Len(h) - n)

\* The integer a digest encodes (OUTPUT_SIZE bytes, little-endian).
DigestValue(bytes) == ReadLE(bytes, 0, OUTPUT_SIZE)

\* a * b modulo P, by doubling (no intermediate value reaches 2^31).
RECURSIVE MulMod(_, _)
MulMod(a, b) ==
    IF b = 0
    THEN 0
    ELSE (2 * MulMod(a, b \div 2) + (b % 2) * (a % Modulus)) % Modulus

\* ------------------------------------------------------------------------
\* Claims
\* ------------------------------------------------------------------------

\* C1  Order independence: whatever the order in which a multiset of inserts
\* and deletes was applied to an identity accumulator, the digest is the one
\* the canonical order of that multiset gives; so all orders agree.
C1_OrderIndependence ==
    PureUpdates(ops[1]) => Digest(data[1]) = Digest(Replay(SortOps(ops[1])))

\* C1 witness: three updates, a delete among them, applied out of canonical
\* order, with a digest other than zero.
C1_Witness ==
    /\ Len(ops[1]) = 3
    /\ PureUpdates(ops[1])
    /\ ops[1] # SortOps(ops[1])
    /\ \E i \in 1..3 : ops[1][i].op = "div"
    /\ ops[1][1].key # ops[1][2].key
    /\ DigestValue(Digest(data[1]).narrow) > 1

\* C2 as claimed: for any state s and any element x, s.mul(x).div(x) has the
\* digest of s.
C2_InsertDeleteCancel_Claimed ==
    \A key \in Keys :
        (/\ Len(ops[1]) >= 2
         /\ ops[1][Len(ops[1]) - 1] = Op("mul", key, <<>>)
         /\ ops[1][Len(ops[1])] = Op("div", key, <<>>))
        => Digest(data[1]) = Digest(Replay(DropLast(ops[1], 2)))

\* C2 amended: for any state s and any element x whose value is not a multiple
\* of P, s.mul(x).div(x) has the digest of s.
C2_InsertDeleteCancel ==
    \A key \in Keys :
        (/\ Len(ops[1]) >= 2
         /\ KEY_VALUES[key] % Modulus # 0
         /\ ops[1][Len(ops[1]) - 1] = Op("mul", key, <<>>)
         /\ ops[1][Len(ops[1])] = Op("div", key, <<>>))
        => Digest(data[1]) = Digest(Replay(DropLast(ops[1], 2)))

\* C2 witness: an ordinary element inserted into, then deleted from, an
\* accumulator that is not the identity.
C2_Witness ==
    /\ Len(ops[1]) = 3
    /\ ops[1][1].op \in {"key", "mul", "div"}
    /\ ops[1][1].key # 2
    /\ ops[1][2] = Op("mul", 2, <<>>)
    /\ ops[1][3] = Op("div", 2, <<>>)
    /\ DigestValue(Digest(data[1]).narrow) > 1

\* C3  Fan-out / fan-in: an accumulator that other accumulators were
\* multiplied into has the digest of one accumulator into which all the
\* elements were inserted one after the other; and a step changes the limbs of
\* the object it operates on only.
C3_FanIn ==
    \A o \in Objs :
        (\E i \in 1..Len(ops[o]) : ops[o][i].op = "join")
        => Digest(data[o]) = Digest(Replay(AsInserts(Elements(ops[o]))))

C3_Independent == \A o \in Objs : ops'[o] = ops[o] => data'[o] = data[o]

C3_FanOutFanIn == [](C3_FanIn) /\ [][C3_Independent]_vars

\* C3 witness: a worker holding one element took over another worker's two
\* elements, none of them zero.
C3_Witness ==
    /\ Len(ops[1]) = 2
    /\ ops[1][1].op \in {"key", "mul"}
    /\ ops[1][2].op = "join"
    /\ Len(ops[2]) = 2
    /\ \A i \in 1..2 : ops[2][i].op \in {"key", "mul"} /\ ops[2][i].key # 1
    /\ ops[1][1].key # 1
    /\ ops[2][1].key # ops[2][2].key
    /\ DigestValue(Digest(data[1]).narrow) > 1

\* C4  Finalize emits canonical values only: in every state reached from a
\* constructor and updates, the bytes Finalize writes encode an integer below P
\* that is congruent to the stored value; so do the bytes it has written.
C4_FinalizeCanonical ==
    /\ DigestValue(Digest(data[1]).wide) < Modulus
    /\ DigestValue(Digest(data[1]).narrow) < Modulus
    /\ DigestValue(Digest(data[1]).wide) = Value(Wide, data[1].wide) % Modulus
    /\ DigestValue(Digest(data[1]).narrow) = Value(Narrow, data[1].narrow) % Modulus
    /\ hash384[1] # <<>> =>
           /\ DigestValue(hash384[1].wide) < Modulus
           /\ DigestValue(hash384[1].narrow) < Modulus

\* C4 witness: Finalize was called on a stored value of at least P that an
\* update had left.
C4_Witness ==
    /\ Len(ops[1]) >= 2
    /\ ops[1][Len(ops[1])].op = "fin"
    /\ ops[1][Len(ops[1]) - 1].op \in {"mul", "div"}
    /\ Value(Narrow, Replay(DropLast(ops[1], 1)).narrow) >= Modulus
    /\ Value(Wide, Replay(DropLast(ops[1], 1)).wide) >= Modulus

\* C5 as claimed: a Finalize call leaves the limbs of the object as they were.
C5_FinalizeKeepsLimbs_Claimed ==
    [][\A o \in Objs :
          ops'[o] = Append(ops[o], Op("fin", 0, <<>>)) => data'[o] = data[o]]_vars

\* C5  Finalize does not change the value modulo P: the limbs a Finalize call
\* leaves hold the value of the limbs before the call reduced modulo P, and
\* they are the same limbs when that value was below P already.
C5_FinalizeStep ==
    \A o \in Objs :
        ops'[o] = Append(ops[o], Op("fin", 0, <<>>))
        => /\ Value(Wide, data'[o].wide) = Value(Wide, data[o].wide) % Modulus
           /\ Value(Narrow, data'[o].narrow) = Value(Narrow, data[o].narrow) % Modulus
           /\ Value(Wide, data[o].wide) < Modulus => data'[o].wide = data[o].wide
           /\ Value(Narrow, data[o].narrow) < Modulus => data'[o].narrow = data[o].narrow

C5_FinalizeKeepsValue == [][C5_FinalizeStep]_vars

\* C5 witness: a Finalize call has changed the limbs of the object.
C5_Witness ==
    /\ Len(ops[1]) >= 1
    /\ ops[1][Len(ops[1])].op = "fin"
    /\ data[1] # Replay(DropLast(ops[1], 1))

\* C6  Finalize is pure for digests: a second Finalize right after a first
\* writes the bytes the first wrote, and the digest of an accumulator is the
\* digest its updates give without the Finalize calls made in between.
C6_FinalizePure ==
    /\ (/\ Len(ops[1]) >= 2
        /\ ops[1][Len(ops[1])].op = "fin"
        /\ ops[1][Len(ops[1]) - 1].op = "fin")
       => hash384[1] = Digest(Replay(DropLast(ops[1], 2)))
    /\ Digest(data[1]) = Digest(Replay(StripFin(ops[1])))

\* C6 witness: Finalize reduced a stored value of at least P in place and an
\* update followed; the digest is the one a Finalize called now writes.
C6_Witness ==
    /\ Len(ops[1]) = 3
    /\ ops[1][1].op = "key"
    /\ KEY_VALUES[ops[1][1].key] > Modulus
    /\ ops[1][2].op = "fin"
    /\ ops[1][3].op \in {"mul", "div"}
    /\ ops[1][3].key = 2

\* Two Finalize calls in a row on a stored value of at least P.
C6_TwoCalls ==
    /\ Len(ops[1]) = 3
    /\ ops[1][2].op = "fin"
    /\ ops[1][3].op = "fin"
    /\ Value(Narrow, Replay(DropLast(ops[1], 2)).narrow) >= Modulus

\* C7  Identity is neutral: a default-constructed accumulator holds 1 (limb 0
\* is 1, the others 0), and identity times e and e times identity have the
\* digest of e alone.
C7_IdentityNeutral ==
    \A o \in Objs :
        /\ ops[o] = <<>> =>
               /\ data[o].wide = [i \in 1..Wide.LIMBS |-> IF i = 1 THEN 1 ELSE 0]
               /\ data[o].narrow = [i \in 1..Narrow.LIMBS |-> IF i = 1 THEN 1 ELSE 0]
               /\ Value(Wide, data[o].wide) = 1
               /\ Value(Narrow, data[o].narrow) = 1
        /\ \A key \in Keys :
               /\ ops[o] = <<Op("mul", key, <<>>)>>
                  => Digest(data[o]) = Digest(Singleton(key))
               /\ \A o2 \in Objs :
                      ops[o] = <<Op("key", key, <<>>), Op("join", o2, <<>>)>>
                      => Digest(data[o]) = Digest(Singleton(key))

\* C7 witness: an element of value P + 1 multiplied by the identity, and the
\* identity multiplied by an ordinary element.
C7_Witness ==
    /\ ops[1] = <<Op("key", 3, <<>>), Op("join", 2, <<>>)>>
    /\ ops[2] = <<>>

C7_Witness2 == ops[2] = <<Op("mul", 2, <<>>)>>

\* C8  Encoding width invariance: under the same operations the wide and the
\* narrow layout hold the same integer after every operation, and Finalize
\* writes the same bytes in both.
C8_WidthInvariance ==
    /\ Value(Wide, data[1].wide) = Value(Narrow, data[1].narrow)
    /\ Digest(data[1]).wide = Digest(data[1]).narrow
    /\ hash384[1] # <<>> => hash384[1].wide = hash384[1].narrow

\* C8 witness: after an insert, a delete and a Finalize, the integer held
\* spans all limbs.
C8_Witness ==
    /\ Len(ops[1]) = 3
    /\ \E i \in 1..3 : ops[1][i].op = "div" /\ ops[1][i].key # 1
    /\ ops[1][3].op = "fin"
    /\ \A i \in 1..Narrow.LIMBS : data[1].narrow[i] # 0
    /\ \A i \in 1..Wide.LIMBS : data[1].wide[i] # 0

\* C9  Division by a zero-valued operand is accepted silently: after a delete
\* of the element whose value is 0 nothing has trapped and the accumulator
\* holds 0, whatever it held before; Inverse of 0 is 0.
C9_DivideByZero ==
    /\ \A key \in Keys :
           (/\ KEY_VALUES[key] = 0
            /\ Len(ops[1]) >= 1
            /\ ops[1][Len(ops[1])] = Op("div", key, <<>>))
           => /\ ~trapped
              /\ Value(Wide, data[1].wide) = 0
              /\ Value(Narrow, data[1].narrow) = 0
              /\ Value(Wide, Inverse(Wide, Singleton(key).wide).limbs) = 0
              /\ Value(Narrow, Inverse(Narrow, Singleton(key).narrow).limbs) = 0

\* C9 witness: an accumulator that held a value other than 0 was divided by
\* the zero-valued element.
C9_Witness ==
    /\ Len(ops[1]) = 2
    /\ ops[1][1].op \in {"key", "mul", "div"}
    /\ KEY_VALUES[ops[1][1].key] % Modulus # 0
    /\ ops[1][2] = Op("div", 1, <<>>)

\* C10  Multiply computes the modular product: a step o *= o2 leaves in o an
\* integer congruent modulo P to the product of the integers o and o2 held,
\* canonical or not and also when o2 is o, and leaves another object o2 as it was.
C10_Product ==
    \A o \in Objs :
        (Len(ops'[o]) = Len(ops[o]) + 1 /\ ops'[o][Len(ops'[o])].op = "join")
        => /\ Value(Wide, data'[o].wide) % Modulus
                = MulMod(Value(Wide, data[o].wide),
                         Value(Wide, data[ops'[o][Len(ops'[o])].key].wide))
           /\ Value(Narrow, data'[o].narrow) % Modulus
                = MulMod(Value(Narrow, data[o].narrow),
                         Value(Narrow, data[ops'[o][Len(ops'[o])].key].narrow))
           /\ \A o2 \in Objs \ {o} : data'[o2] = data[o2]

C10_MultiplyIsModularProduct == [][C10_Product]_vars

\* C10 witness: an object was multiplied by itself and then by another object
\* holding a value of at least P; the outcome is neither 0 nor 1.
C10_Witness ==
    /\ Len(ops[1]) = 2
    /\ ops[1][1].key = 1
    /\ ops[1][2].key = 2
    /\ ops[2] = <<>>
    /\ Value(Narrow, data[2].narrow) >= Modulus
    /\ Value(Narrow, data[1].narrow) % Modulus > 1

\* The object o was multiplied by an object (the last entry of its history) in
\* this step, and both held values below P.
CanonicalProductStep(o) ==
    /\ Len(ops'[o]) = Len(ops[o]) + 1
    /\ ops'[o][Len(ops'[o])].op = "join"
    /\ \A b \in Layouts :
           /\ Value(Layout(b), data[o][b]) < Modulus
           /\ Value(Layout(b), data[ops'[o][Len(ops'[o])].key][b]) < Modulus

\* C11 as claimed: when both operands hold values below P on entry to
\* Multiply, the value left in acc is below P.
C11_StaysCanonical ==
    \A o \in Objs :
        CanonicalProductStep(o)
        => \A b \in Layouts : Value(Layout(b), data'[o][b]) < Modulus

C11_MultiplyCanonical_Claimed == [][C11_StaysCanonical]_vars

\* C11  Multiply leaves a value one FullReduce away from canonical: when both
\* operands hold values below P on entry, the value left in acc is below P, or
\* it is at least P, IsOverflow holds of it and FullReduce makes it the
\* canonical product; in both cases Finalize's reduction yields the product
\* modulo P.
C11_NearCanonical ==
    \A o \in Objs :
        CanonicalProductStep(o)
        => \A b \in Layouts :
               /\ Value(Layout(b), data'[o][b]) < Modulus
                  \/ IsOverflow(Layout(b), data'[o][b])
               /\ Value(Layout(b), FinalizeData(Layout(b), data'[o][b]))
                    = MulMod(Value(Layout(b), data[o][b]),
                             Value(Layout(b), data[ops'[o][Len(ops'[o])].key][b]))

C11_MultiplyNearCanonical == [][C11_NearCanonical]_vars

\* C11 witness: P - 1 was multiplied by P - 1 and P + 1 is left.
C11_Witness ==
    /\ ops[1] = <<Op("join", 2, <<>>)>>
    /\ ops[2] = <<>>
    /\ Value(Narrow, data[2].narrow) = Modulus - 1
    /\ Value(Narrow, data[1].narrow) = Modulus + 1
    /\ Value(Wide, data[1].wide) = Modulus + 1

\* C12  Carry bounds: a Multiply or a Square step, whatever the operands hold,
\* drops no carry out of a 3-limb accumulator nor out of muln2's product, and
\* leaves c1 = 0 and c0 in {0, 1} after the second reduction (no DEBUG
\* assertion fails, the process has not aborted).
C12_NoCarryLost ==
    \A o \in Objs :
        Len(ops'[o]) = Len(ops[o]) + 1
        => /\ ~trapped'
           /\ ops'[o][Len(ops'[o])].op = "join"
              => \A b \in Layouts :
                     /\ ~MultiplyLost(Layout(b), data[o][b],
                                      data[ops'[o][Len(ops'[o])].key][b])
                     /\ Multiply(Layout(b), data[o][b],
                                 data[ops'[o][Len(ops'[o])].key][b]).ok
           /\ ops'[o][Len(ops'[o])].op = "sq"
              => \A b \in Layouts :
                     /\ ~SquareLost(Layout(b), data[o][b])
                     /\ Square(Layout(b), data[o][b]).ok

C12_CarryBounds == [][C12_NoCarryLost]_vars

\* C12 witness: a value congruent to 2 (2 or 2^bits - 1) was squared and then
\* multiplied by the largest value, 2^bits - 1.
C12_Witness ==
    /\ Len(ops[1]) = 2
    /\ ops[1][1].op = "sq"
    /\ ops[1][2] = Op("join", 2, <<>>)
    /\ ops[2] = <<>>
    /\ Value(Narrow, data[2].narrow) = TwoToBits - 1
    /\ Value(Narrow, data[1].narrow) % Modulus = MulMod(MulMod(2, 2), 2)

\* C13  Square agrees with Multiply: a Square step leaves in x exactly the limbs
\* Multiply(x, y) leaves with y a copy of x, whatever x holds.
C13_SquareStep ==
    \A o \in Objs :
        (Len(ops'[o]) = Len(ops[o]) + 1 /\ ops'[o][Len(ops'[o])].op = "sq")
        => /\ data'[o].wide = Multiply(Wide, data[o].wide, data[o].wide).limbs
           /\ data'[o].narrow = Multiply(Narrow, data[o].narrow, data[o].narrow).limbs

C13_SquareIsMultiply == [][C13_SquareStep]_vars

\* C13 witness: both objects were squared; one square has no limb that is 0
\* in either layout, the other is 4.
C13_Witness ==
    /\ ops[1] = <<Op("sq", 1, <<>>)>>
    /\ ops[2] = <<Op("sq", 2, <<>>)>>
    /\ \A i \in 1..Narrow.LIMBS : data[1].narrow[i] # 0
    /\ \A i \in 1..Wide.LIMBS : data[1].wide[i] # 0
    /\ Value(Narrow, data[2].narrow) = 4

\* C14  Inversion schedule: every finished table entry p[i] holds a to the
\* power 2^(2^i) - 1, and when Inverse returns, all twelve entries are finished,
\* the exponent of *out plus MAX_PRIME_DIFF + 2 is 2^3072 (the exponent is
\* P - 2 = 2^3072 - 1103719), and Square was called 3071 times.
C14_InversionSchedule ==
    /\ inv.pc # "idle"
    /\ \A k \in 1..Len(inv.p) :
           (k <= inv.i + 1) => inv.p[k] = ExpRepunit(2 ^ (k - 1))
    /\ inv.pc = "done"
       => /\ Len(inv.p) = TABLE_TOP_3072 + 1
          /\ inv.i = TABLE_TOP_3072
          /\ ExpAdd(inv.out, ExpFromInt(MAX_PRIME_DIFF_3072 + 2)) = ExpPowerOfTwo(NUM_BITS)
          /\ inv.sq = NUM_BITS - 1

\* C14 witness: Inverse has returned.
C14_Witness == inv.pc = "done" /\ inv.sq > 0 /\ inv.out # ExpFromInt(0)

\* C15  IsOverflow is exact: in a Finalize step, whatever value v the object
\* holds, IsOverflow holds of its limbs iff v >= P, that is iff limb 0 exceeds
\* 2^w - 1 - MAX_PRIME_DIFF and every other limb is 2^w - 1; when it holds,
\* FullReduce leaves v - P in the object, and otherwise the limbs stay.
C15_FinalizeStep ==
    \A o \in Objs :
        ops'[o] = Append(ops[o], Op("fin", 0, <<>>))
        => \A b \in Layouts :
               /\ IsOverflow(Layout(b), data[o][b])
                    <=> Value(Layout(b), data[o][b]) >= Modulus
               /\ Value(Layout(b), data[o][b]) >= Modulus
                    <=> /\ data[o][b][1] > LimbMax(Layout(b)) - MAX_PRIME_DIFF
                        /\ \A i \in 2..Layout(b).LIMBS : data[o][b][i] = LimbMax(Layout(b))
               /\ Value(Layout(b), data[o][b]) >= Modulus
                    => /\ data'[o][b] = FullReduce(Layout(b), data[o][b])
                       /\ Value(Layout(b), data'[o][b])
                            = Value(Layout(b), data[o][b]) - Modulus
               /\ Value(Layout(b), data[o][b]) < Modulus
                    => data'[o][b] = data[o][b]

C15_IsOverflowExact == [][C15_FinalizeStep]_vars

\* C15 witness: both objects were finalized; one holds 2 and its buffer spells
\* 2 (what Finalize leaves of the largest value 2^bits - 1, and of 2), the other
\* holds P - 1, the largest value IsOverflow lets pass.
C15_Witness ==
    /\ ops[1] = <<Op("fin", 0, <<>>)>>
    /\ ops[2] = <<Op("fin", 0, <<>>)>>
    /\ Value(Narrow, data[1].narrow) = TwoToBits - 1 - Modulus
    /\ Value(Wide, data[1].wide) = TwoToBits - 1 - Modulus
    /\ DigestValue(hash384[1].narrow) = TwoToBits - 1 - Modulus
    /\ Value(Narrow, data[2].narrow) = Modulus - 1

\* The three limbs of ([c0,c1,c2] + n * [d0,d1,d2]) modulo 2^(3w), added limb
\* by limb.
Sum3(lay, c, d, n) ==
    LET B  == Base(lay)
        s0 == c[1] + n * d[1]
        s1 == c[2] + n * d[2] + (s0 \div B)
        s2 == c[3] + n * d[3] + (s1 \div B)
    IN  <<s0 % B, s1 % B, s2 % B>>

\* At every call of mulnadd3 a step of Multiply or Square makes, c2 is 0 and the
\* sum fits in three limbs.
C16_CallsFit ==
    \A o \in Objs :
        Len(ops'[o]) = Len(ops[o]) + 1
        => /\ ops'[o][Len(ops'[o])].op = "join"
              => \A b \in Layouts :
                     ~MultiplyMulnadd3Overflows(Layout(b), data[o][b],
                          data[ops'[o][Len(ops'[o])].key][b], 0, NoRows(Layout(b)))
           /\ ops'[o][Len(ops'[o])].op = "sq"
              => \A b \in Layouts :
                     ~SquareMulnadd3Overflows(Layout(b), data[o][b], 0, NoRows(Layout(b)))

\* C16 as stated: for all limb values c0, c1, c2, d0, d1, d2 and n, mulnadd3
\* leaves ([c0,c1,c2] + n * [d0,d1,d2]) modulo 2^(3w) in the accumulator, and
\* at every call made by Multiply and Square the sum fits in three limbs.
C16_AddsScaledTriple_Step ==
    /\ regs.pc = "call" /\ regs'.pc = "returned"
       => regs'.c = Sum3(Layout(regs.lay), regs.c, regs.d, regs.n)
    /\ C16_CallsFit

C16_AddsScaledTriple_Claimed == [][C16_AddsScaledTriple_Step]_vars

\* C16  mulnadd3 adds the scaled triple into an accumulator whose c2 is 0: for
\* all limb values c0, c1, d0, d1, d2 and n, and c2 = 0, mulnadd3 leaves
\* ([c0,c1,0] + n * [d0,d1,d2]) modulo 2^(3w) in [c0,c1,c2]; the c2 it is
\* given is overwritten, never added, so with any c2 it leaves
\* ([c0,c1,0] + n * [d0,d1,d2]) modulo 2^(3w); and at every call made by
\* Multiply and Square c2 is 0 and the sum fits in three limbs.
C16_Mulnadd3Step ==
    /\ regs.pc = "call" /\ regs'.pc = "returned"
       => /\ regs.c[3] = 0
             => regs'.c = Sum3(Layout(regs.lay), regs.c, regs.d, regs.n)
          /\ regs'.c = Sum3(Layout(regs.lay), WithZero(regs.c), regs.d, regs.n)
    /\ C16_CallsFit

C16_AddsScaledTripleFromZero == [][C16_Mulnadd3Step]_vars

\* C16 witness: mulnadd3 was called with [c0,c1,c2] = [max, max, 0],
\* [d0,d1,d2] = [max, max, 1] and n = MAX_PRIME_DIFF in the wide layout, both
\* lower limbs carrying, and returned.
C16_Witness ==
    /\ regs.pc = "returned"
    /\ regs.lay = "wide"
    /\ regs.old = <<LimbMax(Wide), LimbMax(Wide), 0>>
    /\ regs.d = <<LimbMax(Wide), LimbMax(Wide), 1>>
    /\ regs.n = MAX_PRIME_DIFF
    /\ regs.c = <<LimbMax(Wide) - MAX_PRIME_DIFF, LimbMax(Wide), MAX_PRIME_DIFF + MAX_PRIME_DIFF>>

\* mulnadd3 was called within Multiply and within Square: the largest value was
\* squared and then multiplied by the largest value.
C16_WitnessCalls ==
    /\ Len(ops[1]) = 2
    /\ ops[1][1].op = "sq"
    /\ ops[1][2] = Op("join", 2, <<>>)
    /\ Value(Narrow, data[2].narrow) = TwoToBits - 1
    /\ regs = NoCall

=============================================================================
